---- MODULE Spec2Model ----
(***************************************************************************)
(* gregory.py: a single-threaded monitor that polls one web page, looks    *)
(* for discount keywords and sends a rate-limited e-mail.                  *)
(*                                                                         *)
(* The model follows main(): Config.from_env, Config.validate,             *)
(* GregoryMonitor.__init__ and GregoryMonitor.run.  pc is the position of  *)
(* the single thread in that code.  Time is the value time.time() returns; *)
(* it is taken to be non-decreasing and advances in the sleeps and while   *)
(* the mail is being transmitted.  Text is a sequence of one-character     *)
(* strings, so that int(), lower() and the substring test are computed.    *)
(***************************************************************************)
EXTENDS Integers, Sequences, FiniteSets, TLC

\* ------------------------------------------------------------------ bounds
MaxCycles == 5
MaxSendTime == 10
MaxLiveClock == 280000

\* -------------------------------------------------------- program constants
cooldown == 86400
RecoverySleep == 300
DefaultCheckInterval == 1800
DefaultSmtpPort == 587

\* ------------------------------------------------------------------- text
\* os.getenv found no such variable (not a text: no character is "<unset>").
Unset == << "<unset>" >>

Digits == {"0", "1", "2", "3", "4", "5", "6", "7", "8", "9"}

DigitVal(c) ==
    CASE c = "0" -> 0 [] c = "1" -> 1 [] c = "2" -> 2 [] c = "3" -> 3
      [] c = "4" -> 4 [] c = "5" -> 5 [] c = "6" -> 6 [] c = "7" -> 7
      [] c = "8" -> 8 [] c = "9" -> 9

RECURSIVE DigitsVal(_)
DigitsVal(s) ==
    IF s = <<>> THEN 0
    ELSE 10 * DigitsVal(SubSeq(s, 1, Len(s) - 1)) + DigitVal(s[Len(s)])

Unsigned(s) == IF s # <<>> /\ s[1] \in {"-", "+"} THEN Tail(s) ELSE s

\* int(str) accepts an optional sign followed by at least one digit and
\* raises ValueError on anything else (the empty string included).
IsIntLiteral(s) ==
    /\ Unsigned(s) # <<>>
    /\ \A i \in 1..Len(Unsigned(s)) : Unsigned(s)[i] \in Digits

IntValue(s) ==
    IF s # <<>> /\ s[1] = "-" THEN 0 - DigitsVal(Tail(s)) ELSE DigitsVal(Unsigned(s))

\* int(os.getenv(NAME, default)): the default is already an int.
IntEnvOk(v) == v = Unset \/ IsIntLiteral(v)
IntEnv(v, default) == IF v = Unset THEN default ELSE IntValue(v)

\* ----------------------------------------------------------------- Config
Fields ==
    << "website_url", "check_interval", "smtp_server", "smtp_port",
       "email_user", "email_password", "sender", "receiver", "user_agent" >>

IntFields == {"check_interval", "smtp_port"}
StrFields == {Fields[i] : i \in 1..Len(Fields)} \ IntFields

StrEnvValues == { <<>>, <<"x">> }
CheckIntervalEnvValues ==
    { Unset, <<>>, <<"a">>, <<"0">>, <<"-", "5">>,
      <<"4", "3", "2", "0", "0">>, <<"8", "6", "4", "0", "1">> }
SmtpPortEnvValues == { Unset, <<"0">> }

Environments ==
    [ website_url : StrEnvValues, check_interval : CheckIntervalEnvValues,
      smtp_server : StrEnvValues, smtp_port : SmtpPortEnvValues,
      email_user : StrEnvValues, email_password : StrEnvValues,
      sender : StrEnvValues, receiver : StrEnvValues, user_agent : StrEnvValues ]

\* The value of `config` before Config.from_env has built the record.
NoConfig == [ f \in StrFields \cup IntFields |-> IF f \in IntFields THEN 0 ELSE <<>> ]

\* Config.from_env: a string field is os.getenv(NAME, ""), so an unset variable
\* and an empty one give the same field.
from_env(e) ==
    [ f \in StrFields \cup IntFields |->
        IF f = "check_interval" THEN IntEnv(e[f], DefaultCheckInterval)
        ELSE IF f = "smtp_port" THEN IntEnv(e[f], DefaultSmtpPort)
        ELSE e[f] ]

from_env_raises(e) == ~IntEnvOk(e["check_interval"]) \/ ~IntEnvOk(e["smtp_port"])

\* `not value` of Config.validate: the empty string and the integer 0.
Falsy(f, value) == IF f \in IntFields THEN value = 0 ELSE value = <<>>

validate(c) == SelectSeq(Fields, LAMBDA f : Falsy(f, c[f]))

\* ------------------------------------------------------- check_discount
keywords ==
    { <<"s", "a", "l", "e">>,
      <<"d", "i", "s", "c", "o", "u", "n", "t">>,
      <<"o", "f", "f">>,
      <<"p", "r", "o", "m", "o">>,
      <<"c", "o", "u", "p", "o", "n">>,
      <<"c", "l", "e", "a", "r", "a", "n", "c", "e">>,
      <<"%", " ", "o", "f", "f">>,
      <<"s", "p", "e", "c", "i", "a", "l", " ", "o", "f", "f", "e", "r">> }

Removed == {"script", "style", "noscript"}

\* A fetched page: its elements in document order, each with its own text and
\* the tags of the elements that enclose it.
Pages ==
    { << [tag |-> "p", inside |-> {}, text |-> <<"W", "e", "l", "c", "o", "m", "e">>] >>,
      << [tag |-> "script", inside |-> {}, text |-> <<"s", "a", "l", "e">>], [tag |-> "p", inside |-> {}, text |-> <<"W", "e", "l", "c", "o", "m", "e">>] >>,
      << [tag |-> "p", inside |-> {}, text |-> <<"S", "A", "L", "E">>] >>,
      << [tag |-> "p", inside |-> {}, text |-> <<" ", "2", "0">>], [tag |-> "style", inside |-> {}, text |-> <<"x">>], [tag |-> "p", inside |-> {}, text |-> <<"%", " ", "O", "f", "f", " ">>] >>,
      << [tag |-> "p", inside |-> {}, text |-> <<"s">>], [tag |-> "p", inside |-> {}, text |-> <<"a", "l", "e">>] >>,
      << [tag |-> "noscript", inside |-> {}, text |-> <<"p", "r", "o", "m", "o">>], [tag |-> "p", inside |-> {}, text |-> <<>>] >>,
      << [tag |-> "p", inside |-> {"div", "noscript"}, text |-> <<"s", "a", "l", "e">>] >> }

Upper == << "A", "E", "F", "L", "O", "S", "W" >>
LowerOf == << "a", "e", "f", "l", "o", "s", "w" >>

lower(c) ==
    IF \E i \in 1..Len(Upper) : Upper[i] = c
    THEN LowerOf[CHOOSE i \in 1..Len(Upper) : Upper[i] = c]
    ELSE c

RECURSIVE strip(_)
strip(t) ==
    IF t = <<>> THEN t
    ELSE IF t[1] = " " THEN strip(Tail(t))
    ELSE IF t[Len(t)] = " " THEN strip(SubSeq(t, 1, Len(t) - 1))
    ELSE t

\* Variant of decompose: only script elements are removed.
decompose_ScriptOnly(page) ==
    SelectSeq(page, LAMBDA n : n.tag # "script" /\ "script" \notin n.inside)

\* for element in soup(["script", "style", "noscript"]): element.decompose()
\* removes each such element with everything inside it.
decompose(page) ==
    SelectSeq(page, LAMBDA n : n.tag \notin Removed /\ n.inside \cap Removed = {})

\* soup.get_text(separator=' ', strip=True).lower(): the stripped, non-empty
\* texts joined by one space, lower-cased.
RECURSIVE get_text(_)
get_text(page) ==
    IF page = <<>> THEN <<>>
    ELSE LET head == strip(page[1].text)
             rest == get_text(Tail(page))
         IN  IF head = <<>> THEN rest
             ELSE IF rest = <<>> THEN head
             ELSE head \o <<" ">> \o rest

lower_text(t) == [i \in 1..Len(t) |-> lower(t[i])]

\* kw in text
Contains(text, kw) ==
    \E i \in 1..(Len(text) - Len(kw) + 1) : SubSeq(text, i, i + Len(kw) - 1) = kw

found_keywords(page) ==
    { kw \in keywords : Contains(lower_text(get_text(decompose(page))), kw) }

\* ------------------------------------------------------------------ state
VARIABLES
    env,           \* the process environment read by Config.from_env
    config,        \* the Config record
    printed,       \* what main has printed: the validation errors, by field
    pc,            \* position of the thread in main / run
    clock,         \* what time.time() returns now
    last_sent,     \* GregoryMonitor.last_sent
    current_time,  \* the local current_time of run
    cycle,         \* number of loop iterations begun
    cycle_log,     \* log records written since the current iteration began
    http_open,     \* the HTTP connection of requests.get is open
    smtp_open,     \* the smtplib.SMTP session is open
    delivered,     \* clock values at which sendmail handed a mail to the server
    sent_at,       \* current_time of every cycle whose send_email returned True
    last_notify,   \* result of the latest send_email call: "none", "ok", "failed"
    signal,        \* a KeyboardInterrupt has been delivered
    response,      \* response.text inside check_discount, NoResponse outside
    cycle_ops      \* fetch / notify / sleep operations begun in this iteration

vars ==
    << env, config, printed, pc, clock, last_sent, current_time, cycle, cycle_log,
       http_open, smtp_open, delivered, sent_at, last_notify, signal,
       response, cycle_ops >>

InitClocks == {86400, 1700000000}
SendDurations == {0, MaxSendTime}

\* positions inside the try body of run, where `except KeyboardInterrupt` applies
TryBody ==
    { "check", "fetching", "parsing", "cooldown_test", "smtp_connect", "smtp_starttls",
      "smtp_login", "smtp_sendmail", "smtp_exit", "sleep" }

InLoop == TryBody \cup {"recover"}

\* No response is held: an empty document.
NoResponse == <<>>

Log(msg) == cycle_log' = Append(cycle_log, msg)

Init ==
    /\ env \in Environments
    /\ config = NoConfig
    /\ printed = <<>>
    /\ pc = "from_env"
    /\ clock \in InitClocks
    /\ last_sent = 0
    /\ current_time = 0
    /\ cycle = 0
    /\ cycle_log = <<>>
    /\ http_open = FALSE
    /\ smtp_open = FALSE
    /\ delivered = <<>>
    /\ sent_at = <<>>
    /\ last_notify = "none"
    /\ signal = FALSE
    /\ response = NoResponse
    /\ cycle_ops = <<>>

\* ------------------------------------------------------------------- main
\* config = Config.from_env(): int() of a malformed variable raises ValueError,
\* which nothing in main catches.
FromEnv ==
    /\ pc = "from_env"
    /\ IF from_env_raises(env)
       THEN pc' = "crashed" /\ config' = config
       ELSE pc' = "validate" /\ config' = from_env(env)
    /\ UNCHANGED << env, printed, clock, last_sent, current_time, cycle, cycle_log,
                    http_open, smtp_open, delivered, sent_at,
                    last_notify, signal,
                    response, cycle_ops >>

\* if errors := config.validate(): print each; return
Validate ==
    /\ pc = "validate"
    /\ IF validate(config) # <<>>
       THEN pc' = "exit_config" /\ printed' = validate(config)
       ELSE pc' = "construct" /\ printed' = printed
    /\ UNCHANGED << env, config, clock, last_sent, current_time, cycle, cycle_log,
                    http_open, smtp_open, delivered, sent_at,
                    last_notify, signal,
                    response, cycle_ops >>

\* monitor = GregoryMonitor(config)
Construct ==
    /\ pc = "construct"
    /\ last_sent' = 0
    /\ pc' = "run"
    /\ UNCHANGED << env, config, printed, clock, current_time, cycle, cycle_log,
                    http_open, smtp_open, delivered, sent_at,
                    last_notify, signal,
                    response, cycle_ops >>

\* -------------------------------------------------------------------- run
RunStart ==
    /\ pc = "run"
    /\ Log("start")
    /\ pc' = "check"
    /\ UNCHANGED << env, config, printed, clock, last_sent, current_time, cycle,
                    http_open, smtp_open, delivered, sent_at,
                    last_notify, signal,
                    response, cycle_ops >>

\* A new iteration: check_discount issues requests.get.
RequestsGet ==
    /\ pc = "check"
    /\ cycle < MaxCycles
    /\ cycle' = cycle + 1
    /\ cycle_log' = <<>>
    /\ cycle_ops' = << "fetch" >>
    /\ http_open' = TRUE
    /\ pc' = "fetching"
    /\ UNCHANGED << env, config, printed, clock, last_sent, current_time,
                    smtp_open, delivered, sent_at, last_notify, signal,
                    response >>

\* Variant of CheckFails: check_discount has no except clause, the exception
\* reaches the loop boundary.
CheckFails_Propagates(kind) ==
    /\ \/ pc = "fetching"
       \/ pc = "parsing" /\ kind = "check_error"
    /\ http_open' = FALSE
    /\ response' = NoResponse
    /\ cycle_log' = cycle_log \o << kind, "loop_error" >>
    /\ pc' = "recover"
    /\ UNCHANGED << env, config, printed, clock, last_sent, current_time, cycle,
                    smtp_open, delivered, sent_at, last_notify, signal, cycle_ops >>

\* requests.get or raise_for_status raises RequestException (kind "net_error"),
\* or the parsing raises another Exception (kind "check_error"): check_discount
\* logs it and returns False, and run takes its else branch.
CheckFails(kind) ==
    /\ \/ pc = "fetching"
       \/ pc = "parsing" /\ kind = "check_error"
    /\ http_open' = FALSE
    /\ response' = NoResponse
    /\ cycle_log' = cycle_log \o << kind, "none" >>
    /\ pc' = "sleep"
    /\ UNCHANGED << env, config, printed, clock, last_sent, current_time, cycle,
                    smtp_open, delivered, sent_at, last_notify, signal, cycle_ops >>

\* requests.get returns a 2xx response; its text is the page.
ResponseArrives(page) ==
    /\ pc = "fetching"
    /\ http_open' = FALSE
    /\ response' = page
    /\ pc' = "parsing"
    /\ UNCHANGED << env, config, printed, clock, last_sent, current_time, cycle,
                    cycle_log, smtp_open, delivered, sent_at, last_notify, signal,
                    cycle_ops >>

\* Variant of CheckReturns: run goes on to the cooldown test whatever
\* check_discount returned.
CheckReturns_IgnoresResult ==
    /\ pc = "parsing"
    /\ response' = NoResponse
    /\ IF found_keywords(response) # {}
       THEN Log("found") /\ pc' = "cooldown_test"
       ELSE Log("none") /\ pc' = "cooldown_test"
    /\ UNCHANGED << env, config, printed, clock, last_sent, current_time, cycle,
                    http_open, smtp_open, delivered, sent_at, last_notify, signal,
                    cycle_ops >>

\* The page is parsed and searched; check_discount returns whether a keyword
\* was found, and run logs the absence of a match.
CheckReturns ==
    /\ pc = "parsing"
    /\ response' = NoResponse
    /\ IF found_keywords(response) # {}
       THEN Log("found") /\ pc' = "cooldown_test"
       ELSE Log("none") /\ pc' = "sleep"
    /\ UNCHANGED << env, config, printed, clock, last_sent, current_time, cycle,
                    http_open, smtp_open, delivered, sent_at, last_notify, signal,
                    cycle_ops >>

\* Variant of CooldownTest: the window is tested with >= instead of >.
CooldownTest_AtLeast ==
    /\ pc = "cooldown_test"
    /\ current_time' = clock
    /\ IF (clock - last_sent) >= cooldown
       THEN pc' = "smtp_connect" /\ cycle_log' = cycle_log
            /\ cycle_ops' = Append(cycle_ops, "notify")
       ELSE pc' = "sleep" /\ Log("cooldown") /\ cycle_ops' = cycle_ops
    /\ UNCHANGED << env, config, printed, clock, last_sent, cycle, http_open,
                    smtp_open, delivered, sent_at, last_notify, signal,
                    response >>

\* Variant of CooldownTest: a suppressed match restarts the window.
CooldownTest_SuppressedAdvances ==
    /\ pc = "cooldown_test"
    /\ current_time' = clock
    /\ IF (clock - last_sent) > cooldown
       THEN pc' = "smtp_connect" /\ cycle_log' = cycle_log
            /\ cycle_ops' = Append(cycle_ops, "notify") /\ last_sent' = last_sent
       ELSE pc' = "sleep" /\ Log("cooldown") /\ cycle_ops' = cycle_ops /\ last_sent' = clock
    /\ UNCHANGED << env, config, printed, clock, cycle, http_open,
                    smtp_open, delivered, sent_at, last_notify, signal,
                    response >>

\* current_time = time.time(); if (current_time - self.last_sent) > self.cooldown
CooldownTest ==
    /\ pc = "cooldown_test"
    /\ current_time' = clock
    /\ IF (clock - last_sent) > cooldown
       THEN pc' = "smtp_connect" /\ cycle_log' = cycle_log
            /\ cycle_ops' = Append(cycle_ops, "notify")
       ELSE pc' = "sleep" /\ Log("cooldown") /\ cycle_ops' = cycle_ops
    /\ UNCHANGED << env, config, printed, clock, last_sent, cycle, http_open,
                    smtp_open, delivered, sent_at, last_notify, signal,
                    response >>
\* --------------------------------------------------------------- send_email
\* with smtplib.SMTP(server, port) as server: the constructor connects.
SmtpConnect ==
    /\ pc = "smtp_connect"
    /\ smtp_open' = TRUE
    /\ pc' = "smtp_starttls"
    /\ UNCHANGED << env, config, printed, clock, last_sent, current_time, cycle,
                    cycle_log, http_open, delivered, sent_at, last_notify, signal,
                    response, cycle_ops >>

\* server.starttls()
SmtpStartTls ==
    /\ pc = "smtp_starttls"
    /\ pc' = "smtp_login"
    /\ UNCHANGED << env, config, printed, clock, last_sent, current_time, cycle,
                    cycle_log, http_open, smtp_open, delivered, sent_at,
                    last_notify, signal,
                    response, cycle_ops >>

\* server.login(email_user, email_password)
SmtpLogin ==
    /\ pc = "smtp_login"
    /\ pc' = "smtp_sendmail"
    /\ UNCHANGED << env, config, printed, clock, last_sent, current_time, cycle,
                    cycle_log, http_open, smtp_open, delivered, sent_at,
                    last_notify, signal,
                    response, cycle_ops >>

\* server.sendmail(...) is accepted by the server after d seconds.
SmtpSendmail(d) ==
    /\ pc = "smtp_sendmail"
    /\ clock' = clock + d
    /\ delivered' = Append(delivered, clock')
    /\ pc' = "smtp_exit"
    /\ UNCHANGED << env, config, printed, last_sent, current_time, cycle,
                    cycle_log, http_open, smtp_open, sent_at,
                    last_notify, signal,
                    response, cycle_ops >>

\* Variant of SmtpExit: run stores the time after the send, not current_time.
SmtpExit_StoresCompletionTime ==
    /\ pc = "smtp_exit"
    /\ smtp_open' = FALSE
    /\ Log("sent")
    /\ last_notify' = "ok"
    /\ last_sent' = clock
    /\ sent_at' = Append(sent_at, current_time)
    /\ pc' = "sleep"
    /\ UNCHANGED << env, config, printed, clock, current_time, cycle, http_open,
                    delivered, signal,
                    response, cycle_ops >>

\* The with block ends: SMTP.__exit__ sends QUIT and closes.  send_email logs
\* and returns True, and run stores current_time in last_sent.
SmtpExit ==
    /\ pc = "smtp_exit"
    /\ smtp_open' = FALSE
    /\ Log("sent")
    /\ last_notify' = "ok"
    /\ last_sent' = current_time
    /\ sent_at' = Append(sent_at, current_time)
    /\ pc' = "sleep"
    /\ UNCHANGED << env, config, printed, clock, current_time, cycle, http_open,
                    delivered, signal,
                    response, cycle_ops >>

\* SMTP.__exit__ closes the session and raises SMTPResponseException because
\* the reply to QUIT is not 221: send_email returns False after the mail left.
SmtpQuitRejected ==
    /\ pc = "smtp_exit"
    /\ smtp_open' = FALSE
    /\ Log("smtp_error")
    /\ last_notify' = "failed"
    /\ pc' = "sleep"
    /\ UNCHANGED << env, config, printed, clock, last_sent, current_time, cycle,
                    http_open, delivered, sent_at, signal,
                    response, cycle_ops >>

\* Variant of SendRaises: last_sent is stored before the result is known.
SendRaises_AdvancesLastSent(kind) ==
    /\ pc \in {"smtp_connect", "smtp_starttls", "smtp_login", "smtp_sendmail"}
    /\ smtp_open' = FALSE
    /\ Log(kind)
    /\ last_notify' = "failed"
    /\ last_sent' = current_time
    /\ pc' = "sleep"
    /\ UNCHANGED << env, config, printed, clock, current_time, cycle,
                    http_open, delivered, sent_at, signal,
                    response, cycle_ops >>

\* Variant of SendRaises: the session is closed on the success path only.
SendRaises_LeavesOpen(kind) ==
    /\ pc \in {"smtp_connect", "smtp_starttls", "smtp_login", "smtp_sendmail"}
    /\ smtp_open' = smtp_open
    /\ Log(kind)
    /\ last_notify' = "failed"
    /\ pc' = "sleep"
    /\ UNCHANGED << env, config, printed, clock, last_sent, current_time, cycle,
                    http_open, delivered, sent_at, signal,
                    response, cycle_ops >>

\* The constructor, starttls, login or sendmail raises: an SMTPException
\* (kind "smtp_error") or another Exception (kind "send_failed").  Leaving the
\* with block closes the session; send_email logs and returns False.
SendRaises(kind) ==
    /\ pc \in {"smtp_connect", "smtp_starttls", "smtp_login", "smtp_sendmail"}
    /\ smtp_open' = FALSE
    /\ Log(kind)
    /\ last_notify' = "failed"
    /\ pc' = "sleep"
    /\ UNCHANGED << env, config, printed, clock, last_sent, current_time, cycle,
                    http_open, delivered, sent_at, signal,
                    response, cycle_ops >>

\* ------------------------------------------------------- sleeps and faults
\* Variant of Sleep: run has no `except Exception`, the ValueError leaves run.
Sleep_Propagates ==
    /\ pc = "sleep"
    /\ IF config["check_interval"] < 0
       THEN /\ pc' = "raised"
            /\ clock' = clock
            /\ cycle_ops' = cycle_ops
            /\ cycle_log' = cycle_log
       ELSE /\ clock' = clock + config["check_interval"]
            /\ pc' = "check"
            /\ cycle_ops' = Append(cycle_ops, "sleep")
            /\ cycle_log' = cycle_log
    /\ UNCHANGED << env, config, printed, last_sent, current_time, cycle,
                    http_open, smtp_open, delivered, sent_at,
                    last_notify, signal,
                    response >>

\* time.sleep(self.config.check_interval): a negative length raises ValueError,
\* which `except Exception` of run catches and logs.
Sleep ==
    /\ pc = "sleep"
    /\ IF config["check_interval"] < 0
       THEN /\ Log("loop_error")
            /\ pc' = "recover"
            /\ clock' = clock
            /\ cycle_ops' = cycle_ops
       ELSE /\ clock' = clock + config["check_interval"]
            /\ pc' = "check"
            /\ cycle_ops' = Append(cycle_ops, "sleep")
            /\ cycle_log' = cycle_log
    /\ UNCHANGED << env, config, printed, last_sent, current_time, cycle,
                    http_open, smtp_open, delivered, sent_at,
                    last_notify, signal,
                    response >>

\* Variant of Recover: the handler resumes the loop without sleeping.
Recover_NoSleep ==
    /\ pc = "recover"
    /\ pc' = "check"
    /\ UNCHANGED << env, config, printed, clock, last_sent, current_time, cycle,
                    cycle_log, http_open, smtp_open, delivered, sent_at,
                    last_notify, signal, response, cycle_ops >>

\* time.sleep(300) in the handler, then the next iteration
Recover ==
    /\ pc = "recover"
    /\ clock' = clock + RecoverySleep
    /\ cycle_ops' = Append(cycle_ops, "sleep")
    /\ pc' = "check"
    /\ UNCHANGED << env, config, printed, last_sent, current_time, cycle,
                    cycle_log, http_open, smtp_open, delivered, sent_at,
                    last_notify, signal,
                    response >>

\* KeyboardInterrupt inside the try body: it is not an Exception, so neither
\* check_discount nor send_email catches it; an open session is closed by its
\* with block; `except KeyboardInterrupt` logs and breaks, and run returns.
Interrupt ==
    /\ pc \in TryBody
    /\ signal' = TRUE
    /\ http_open' = FALSE
    /\ smtp_open' = FALSE
    /\ response' = NoResponse
    /\ Log("interrupted")
    /\ pc' = "returned"
    /\ UNCHANGED << env, config, printed, clock, last_sent, current_time, cycle,
                    delivered, sent_at, last_notify, cycle_ops >>

\* KeyboardInterrupt while the `except Exception` handler sleeps: a handler of
\* the same try statement does not catch it, so it leaves run and main.
InterruptInHandler ==
    /\ pc = "recover"
    /\ signal' = TRUE
    /\ pc' = "raised"
    /\ UNCHANGED << env, config, printed, clock, last_sent, current_time, cycle,
                    cycle_log, http_open, smtp_open, delivered, sent_at,
                    last_notify,
                    response, cycle_ops >>

Next ==
    \/ FromEnv
    \/ Validate
    \/ Construct
    \/ RunStart
    \/ RequestsGet
    \/ \E kind \in {"net_error", "check_error"} : CheckFails(kind)
    \/ \E page \in Pages : ResponseArrives(page)
    \/ CheckReturns
    \/ CooldownTest
    \/ SmtpConnect
    \/ SmtpStartTls
    \/ SmtpLogin
    \/ \E d \in SendDurations : SmtpSendmail(d)
    \/ SmtpExit
    \/ SmtpQuitRejected
    \/ \E kind \in {"smtp_error", "send_failed"} : SendRaises(kind)
    \/ Sleep
    \/ Recover
    \/ Interrupt
    \/ InterruptInHandler

Spec == Init /\ [][Next]_vars
\* ------------------------------------------ check_discount on many pages
DetectTexts ==
    { <<"S", "a", "l", "E">>, <<"s">>, <<"a", "l", "e", " ">>, <<"%">>,
      <<" ", "o", "f", "f">>, <<"h", "i">> }

DetectNodes ==
    [ tag : {"p", "script", "style"}, inside : { {}, {"noscript"} }, text : DetectTexts ]

DetectPages ==
    { <<>> } \cup { <<n>> : n \in DetectNodes }
             \cup { <<n, m>> : n \in DetectNodes, m \in DetectNodes }

\* check_discount has received a page in the first iteration of a running loop.
InitDetect ==
    /\ env = [ website_url |-> <<"x">>, check_interval |-> Unset,
               smtp_server |-> <<"x">>, smtp_port |-> Unset,
               email_user |-> <<"x">>, email_password |-> <<"x">>,
               sender |-> <<"x">>, receiver |-> <<"x">>, user_agent |-> <<"x">> ]
    /\ config = from_env(env)
    /\ printed = <<>>
    /\ pc = "parsing"
    /\ clock \in InitClocks
    /\ last_sent = 0
    /\ current_time = 0
    /\ cycle = 1
    /\ cycle_log = <<>>
    /\ http_open = FALSE
    /\ smtp_open = FALSE
    /\ delivered = <<>>
    /\ sent_at = <<>>
    /\ last_notify = "none"
    /\ signal = FALSE
    /\ response \in DetectPages
    /\ cycle_ops = << "fetch" >>

\* check_discount applied to the page, the page kept for inspection.
Detect ==
    /\ pc = "parsing"
    /\ IF found_keywords(response) # {}
       THEN Log("found") /\ pc' = "cooldown_test"
       ELSE Log("none") /\ pc' = "sleep"
    /\ UNCHANGED << env, config, printed, clock, last_sent, current_time, cycle,
                    http_open, smtp_open, delivered, sent_at, last_notify, signal,
                    response, cycle_ops >>

NextDetect == Detect

SpecDetect == InitDetect /\ [][NextDetect]_vars

\* ------------------------------------------------- the loop run for ever
\* The same steps with the unbounded values saturated, so that the loop can
\* run for ever in finitely many states: the clock stops at MaxLiveClock, and
\* the iteration counter and the delivery history are not kept.
Saturated(t) == IF t > MaxLiveClock THEN MaxLiveClock ELSE t

ValidEnv(interval) ==
    [ website_url |-> <<"x">>, check_interval |-> interval,
      smtp_server |-> <<"x">>, smtp_port |-> Unset,
      email_user |-> <<"x">>, email_password |-> <<"x">>,
      sender |-> <<"x">>, receiver |-> <<"x">>, user_agent |-> <<"x">> ]

LiveStarts ==
    { << ValidEnv(<<"4", "3", "2", "0", "0">>), 86400 >>,
      << ValidEnv(<<"8", "6", "4", "0", "1">>), 86400 >>,
      << ValidEnv(<<"-", "5">>), MaxLiveClock - 4 * RecoverySleep >> }

MatchingPages == { page \in Pages : found_keywords(page) # {} }

InitLive ==
    /\ \E start \in LiveStarts : env = start[1] /\ clock = start[2]
    /\ config = NoConfig
    /\ printed = <<>>
    /\ pc = "from_env"
    /\ last_sent = 0
    /\ current_time = 0
    /\ cycle = 0
    /\ cycle_log = <<>>
    /\ http_open = FALSE
    /\ smtp_open = FALSE
    /\ delivered = <<>>
    /\ sent_at = <<>>
    /\ last_notify = "none"
    /\ signal = FALSE
    /\ response = NoResponse
    /\ cycle_ops = <<>>

RequestsGetLive ==
    /\ pc = "check"
    /\ cycle_log' = <<>>
    /\ cycle_ops' = << "fetch" >>
    /\ http_open' = TRUE
    /\ pc' = "fetching"
    /\ UNCHANGED << env, config, printed, clock, last_sent, current_time, cycle,
                    smtp_open, delivered, sent_at, last_notify, signal, response >>

SmtpSendmailLive(d) ==
    /\ pc = "smtp_sendmail"
    /\ clock' = Saturated(clock + d)
    /\ pc' = "smtp_exit"
    /\ UNCHANGED << env, config, printed, last_sent, current_time, cycle,
                    cycle_log, http_open, smtp_open, delivered, sent_at,
                    last_notify, signal, response, cycle_ops >>

SleepLive ==
    /\ pc = "sleep"
    /\ IF config["check_interval"] < 0
       THEN /\ Log("loop_error")
            /\ pc' = "recover"
            /\ clock' = clock
            /\ cycle_ops' = cycle_ops
       ELSE /\ clock' = Saturated(clock + config["check_interval"])
            /\ pc' = "check"
            /\ cycle_ops' = Append(cycle_ops, "sleep")
            /\ cycle_log' = cycle_log
    /\ UNCHANGED << env, config, printed, last_sent, current_time, cycle,
                    http_open, smtp_open, delivered, sent_at,
                    last_notify, signal, response >>

RecoverLive ==
    /\ pc = "recover"
    /\ clock' = Saturated(clock + RecoverySleep)
    /\ cycle_ops' = Append(cycle_ops, "sleep")
    /\ pc' = "check"
    /\ UNCHANGED << env, config, printed, last_sent, current_time, cycle,
                    cycle_log, http_open, smtp_open, delivered, sent_at,
                    last_notify, signal, response >>

\* No operator interrupt, every fetch succeeds and every page matches; the
\* notifier may fail at any step.
NextLive ==
    \/ FromEnv
    \/ Validate
    \/ Construct
    \/ RunStart
    \/ RequestsGetLive
    \/ \E page \in MatchingPages : ResponseArrives(page)
    \/ CheckReturns
    \/ CooldownTest
    \/ SmtpConnect
    \/ SmtpStartTls
    \/ SmtpLogin
    \/ \E d \in SendDurations : SmtpSendmailLive(d)
    \/ SmtpExit
    \/ SmtpQuitRejected
    \/ \E kind \in {"smtp_error", "send_failed"} : SendRaises(kind)
    \/ SleepLive
    \/ RecoverLive

\* The thread keeps running, and the notifier does not fail for ever: each of
\* its steps succeeds eventually when it is attempted again and again.
SpecLive ==
    /\ InitLive
    /\ [][NextLive]_vars
    /\ WF_vars(NextLive)
    /\ SF_vars(SmtpConnect)
    /\ SF_vars(SmtpStartTls)
    /\ SF_vars(SmtpLogin)
    /\ SF_vars(\E d \in SendDurations : SmtpSendmailLive(d))
    /\ SF_vars(SmtpExit)

\* ================================================================== claims
LastOf(log) == IF log = <<>> THEN "" ELSE log[Len(log)]

SendPcs == {"smtp_connect", "smtp_starttls", "smtp_login", "smtp_sendmail", "smtp_exit"}

\* C1: any two cycles whose send_email returned True read clock values more
\* than the cooldown window (86400 s) apart, whatever happened in between.
C1_CooldownInvariant ==
    \A i, j \in 1..Len(sent_at) : i < j => sent_at[j] - sent_at[i] > cooldown

C1_TwoNotifications == Len(sent_at) >= 2

\* C2: a step in which send_email returns False leaves last_sent as it was, and
\* while the latest send_email result is a failure, a cycle that detects a match
\* goes on to invoke the notifier (it is never suppressed by the cooldown).
C2_FailedSendRetried ==
    [][ /\ (pc \in SendPcs /\ pc' = "sleep" /\ last_notify' = "failed")
            => last_sent' = last_sent
        /\ (pc = "cooldown_test" /\ last_notify = "failed" /\ ~signal')
            => pc' = "smtp_connect" ]_vars

C2_RetryAfterFailure == pc = "smtp_connect" /\ last_notify = "failed"

\* C3: a cycle that detects a match while no notification has ever been sent
\* invokes the notifier, whatever the clock reads.
C3_NeverNotifiedAlwaysSends ==
    [][ (pc = "cooldown_test" /\ sent_at = <<>> /\ last_sent = 0 /\ ~signal')
            => pc' = "smtp_connect" ]_vars

\* C4: run ends (returns or lets an exception out) only after an operator
\* interrupt; no failure of a cycle ends it.
C4_OnlyInterruptEndsLoop == pc \in {"returned", "raised"} => signal

C4_LoopResumedAfterFault ==
    pc = "check" /\ LastOf(cycle_log) = "loop_error" /\ last_notify = "failed"

\* C5: once an operator interrupt has been delivered to the running loop, run
\* has returned normally and the shutdown message is the last record logged.
C5_InterruptCleanShutdown ==
    signal => (pc = "returned" /\ LastOf(cycle_log) = "interrupted")

\* C6: after a cycle whose fetch, parse or notifier failed, the loop sleeps
\* exactly check_interval seconds and then begins the next cycle.
FailureRecords == {"net_error", "check_error", "smtp_error", "send_failed"}

C6_FailedCycleSleepsInterval ==
    [][ ( /\ pc = "sleep"
          /\ \E i \in 1..Len(cycle_log) : cycle_log[i] \in FailureRecords
          /\ ~signal' )
            => (pc' = "check" /\ clock' = clock + config["check_interval"]) ]_vars

\* C7: once a notification has succeeded at time t (the latest one), a cycle that
\* detects a match at a clock value within cooldown of t sends nothing, logs the
\* suppression and leaves last_sent unchanged; one later than that invokes the
\* notifier.
C7_CooldownSuppression ==
    [][ (pc = "cooldown_test" /\ sent_at # <<>> /\ ~signal')
            => IF clock - sent_at[Len(sent_at)] <= cooldown
               THEN /\ pc' = "sleep"
                    /\ LastOf(cycle_log') = "cooldown"
                    /\ last_sent' = last_sent
                    /\ delivered' = delivered
                    /\ sent_at' = sent_at
               ELSE pc' = "smtp_connect" ]_vars

C7_SuppressedAfterSuccess ==
    pc = "sleep" /\ LastOf(cycle_log) = "cooldown" /\ sent_at # <<>>

\* C8: last_sent changes only in the step in which send_email returns True.
C8_LastSentFrame ==
    [][ last_sent' # last_sent
            => (pc = "smtp_exit" /\ last_notify' = "ok" /\ LastOf(cycle_log') = "sent") ]_vars

C8_KeptAfterLaterFailure ==
    /\ sent_at # <<>>
    /\ last_sent = sent_at[Len(sent_at)]
    /\ last_notify = "failed"
    /\ pc = "sleep"

\* C9: if a configuration variable is empty, main prints one error per such
\* field and returns; the monitor is constructed only when no field is empty.
EmptyFields == SelectSeq(Fields, LAMBDA f : env[f] = <<>>)

C9_StartupValidation ==
    /\ (EmptyFields # <<>> /\ pc \notin {"from_env", "validate"})
            => /\ pc = "exit_config"
               /\ \A i \in 1..Len(EmptyFields) :
                      \E j \in 1..Len(printed) : printed[j] = EmptyFields[i]
    /\ (pc \in InLoop \cup {"construct", "run", "returned", "raised"})
            => validate(config) = <<>>

\* C10: the SMTP session is open only between the constructor and the end of
\* the with block, the HTTP connection only during requests.get: neither is open
\* while the loop sleeps, when a cycle begins or after run has ended.
C10_ConnectionsScoped ==
    /\ smtp_open => pc \in {"smtp_starttls", "smtp_login", "smtp_sendmail", "smtp_exit"}
    /\ http_open => pc = "fetching"

C10_ClosedAfterFailedSession ==
    pc = "sleep" /\ delivered # <<>> /\ sent_at = <<>> /\ ~smtp_open

\* C11: check_discount reports a match exactly when some keyword occurs, letter
\* case ignored, in the text of the page that lies outside script, style and
\* noscript elements (the trimmed texts of those elements, one space between).
C11_Outside(n) ==
    /\ n.tag \notin {"script", "style", "noscript"}
    /\ n.inside \cap {"script", "style", "noscript"} = {}

C11_Trimmed(t) ==
    LET solid == { i \in 1..Len(t) : t[i] # " " }
    IN  IF solid = {} THEN <<>>
        ELSE SubSeq(t, CHOOSE i \in solid : \A j \in solid : i <= j,
                       CHOOSE i \in solid : \A j \in solid : i >= j)

RECURSIVE C11_TextUpTo(_, _)
C11_TextUpTo(page, k) ==
    IF k = 0 THEN <<>>
    ELSE LET before == C11_TextUpTo(page, k - 1)
             piece == C11_Trimmed(page[k].text)
         IN  IF ~C11_Outside(page[k]) \/ piece = <<>> THEN before
             ELSE IF before = <<>> THEN piece
             ELSE before \o <<" ">> \o piece

C11_Occurs(kw, text) ==
    \E start \in 0..(Len(text) - Len(kw)) :
        \A k \in 1..Len(kw) : lower(text[start + k]) = lower(kw[k])

C11_KeywordOutside(page) ==
    \E kw \in keywords : C11_Occurs(kw, C11_TextUpTo(page, Len(page)))

C11_KeywordInsideRemoved(page) ==
    \E i \in 1..Len(page) :
        /\ ~C11_Outside(page[i])
        /\ \E kw \in keywords : C11_Occurs(kw, page[i].text)

C11_DetectionRule ==
    pc # "parsing" => ((pc = "cooldown_test") <=> C11_KeywordOutside(response))

C11_RemovedKeywordNoMatch ==
    pc = "sleep" /\ C11_KeywordInsideRemoved(response) /\ LastOf(cycle_log) = "none"

\* C12: a step in which an exception reaches the loop boundary logs it and
\* leads to the handler, whose only continuation is one sleep of 300 seconds
\* followed by a new cycle; a cycle that raises nothing ends with one sleep of
\* check_interval seconds, and the handler is entered in no other way.
NumSleeps(ops) == Cardinality({ i \in 1..Len(ops) : ops[i] = "sleep" })

C12_RecoverySleep ==
    [][ /\ (cycle_log' # cycle_log /\ LastOf(cycle_log') = "loop_error")
            => (pc' = "recover" /\ clock' = clock /\ NumSleeps(cycle_ops') = 0)
        /\ (pc' = "recover") => LastOf(cycle_log') = "loop_error"
        /\ (pc = "recover" /\ ~signal')
            => /\ pc' = "check"
               /\ clock' = clock + RecoverySleep
               /\ NumSleeps(cycle_ops') = 1
        /\ (pc = "sleep" /\ pc' = "check")
            => /\ clock' = clock + config["check_interval"]
               /\ NumSleeps(cycle_ops') = 1
               /\ \A i \in 1..Len(cycle_log') : cycle_log'[i] # "loop_error" ]_vars

C12_ResumedAfterRecoverySleep ==
    pc = "check" /\ LastOf(cycle_log) = "loop_error" /\ LastOf(cycle_ops) = "sleep"

\* C13: a step in which fetching, parsing or detecting raises ends
\* check_discount with False: run logs "no discount", goes to its sleep and
\* invokes no notifier in that cycle; a step in which the sending raises ends
\* send_email with False and run goes to its sleep.  Neither reaches the handler
\* of the loop boundary.
CheckFailureRecords == {"net_error", "check_error"}
SendFailureRecords == {"smtp_error", "send_failed"}

Added(old, new) == { new[i] : i \in (Len(old) + 1)..Len(new) }

C13_FailuresAreValues ==
    /\ [](( \E i \in 1..Len(cycle_log) : cycle_log[i] \in CheckFailureRecords )
            => /\ pc \notin SendPcs \cup {"cooldown_test"}
               /\ \A i \in 1..Len(cycle_ops) : cycle_ops[i] # "notify"
               /\ \A i \in 1..Len(cycle_log) : cycle_log[i] \notin SendFailureRecords \cup {"sent"})
    /\ [][ /\ (pc \in {"fetching", "parsing"}
                /\ Added(cycle_log, cycle_log') \cap CheckFailureRecords # {})
                => /\ pc' = "sleep"
                   /\ LastOf(cycle_log') = "none"
                   /\ last_notify' = last_notify
                   /\ delivered' = delivered
           /\ (pc \in SendPcs
                /\ Added(cycle_log, cycle_log') \cap SendFailureRecords # {})
                => /\ pc' = "sleep"
                   /\ last_notify' = "failed"
                   /\ "loop_error" \notin Added(cycle_log, cycle_log') ]_vars

C13_FetchFailureThenSleep ==
    /\ pc = "sleep"
    /\ cycle_log = << "net_error", "none" >>
    /\ cycle_ops = << "fetch" >>

\* C14: within an iteration the operations begin in the order fetch, then at
\* most one notifier call, then one sleep, and a finished iteration has exactly
\* one fetch and one sleep; the notifier runs only after this iteration's
\* detection logged a match and the cooldown test passed; the HTTP connection
\* and the SMTP session are never open together nor once the sleep has begun.
Has(log, x) == \E i \in 1..Len(log) : log[i] = x

C14_CycleOrdering ==
    /\ cycle_ops \in { <<>>, <<"fetch">>, <<"fetch", "notify">>, <<"fetch", "sleep">>,
                       <<"fetch", "notify", "sleep">> }
    /\ (pc = "check" /\ cycle >= 1)
            => cycle_ops \in { <<"fetch", "sleep">>, <<"fetch", "notify", "sleep">> }
    /\ pc \in SendPcs
            => /\ cycle_ops = <<"fetch", "notify">>
               /\ Has(cycle_log, "found")
               /\ current_time - last_sent > cooldown
    /\ Has(cycle_ops, "notify") => Has(cycle_log, "found")
    /\ ~(http_open /\ smtp_open)
    /\ http_open => cycle_ops = <<"fetch">>
    /\ smtp_open => cycle_ops = <<"fetch", "notify">>

C14_FetchNotifySleep ==
    pc = "check" /\ cycle_ops = <<"fetch", "notify", "sleep">>

\* C15: whenever send_email returns False, the call has handed no mail to the
\* server (the latest delivery, if any, is older than this cycle's current_time).
C15_FailureMeansNothingDelivered ==
    [][ (pc \in SendPcs /\ pc' = "sleep" /\ last_notify' = "failed")
            => (delivered = <<>> \/ delivered[Len(delivered)] < current_time) ]_vars

\* C16: last_sent never exceeds the clock and never decreases; a step that
\* changes it raises it by more than the cooldown, to current_time, the value
\* read when the notifier was about to be invoked and not later than the
\* moment the mail was handed over.
C16_LastSentMonotone ==
    /\ [](last_sent <= clock)
    /\ [](pc = "smtp_connect" => current_time = clock)
    /\ [][ /\ last_sent' >= last_sent
           /\ last_sent' # last_sent
                => /\ last_sent' - last_sent > cooldown
                   /\ last_sent' = current_time
                   /\ current_time' = current_time
                   /\ delivered # <<>>
                   /\ last_sent' <= delivered[Len(delivered)] ]_vars

C16_StoredBeforeCompletion ==
    /\ last_sent # 0
    /\ delivered # <<>>
    /\ last_sent < delivered[Len(delivered)]
    /\ last_sent < clock
    /\ LastOf(cycle_log) = "sent"

\* C17: with no interrupt, every cycle matching and the notifier not failing
\* for ever, a notification eventually succeeds, and whenever more than the
\* cooldown has passed since the stored last_sent, a notification succeeds again.
C17_NotifiedAgainAndAgain ==
    /\ <>(sent_at # <<>>)
    /\ (clock - last_sent > cooldown) ~> (pc = "sleep" /\ LastOf(cycle_log) = "sent")

C17_SecondWindowNotified ==
    /\ Len(sent_at) = 2
    /\ sent_at[2] - sent_at[1] > cooldown
    /\ pc = "sleep"
    /\ LastOf(cycle_log) = "sent"

====
